---------------------------- MODULE Spec2Model ----------------------------
(***************************************************************************)
(* QsLog file destinations: SizeRotationStrategy + FileDestination and     *)
(* DailyRotationStrategy + DailyFileDestination (src/QsLogDestFile.cpp).   *)
(*                                                                         *)
(* A run constructs one strategy, configures it with its setters, then     *)
(* constructs the destination on it and calls write().  write() is         *)
(* followed statement by statement (pc), so that the states between        *)
(* close, rotate, reopen and append can be named.                          *)
(***************************************************************************)
EXTENDS Integers, Sequences, FiniteSets, TLC

\* ------------------------------------------------------------------ bounds
\* write() calls in one run
MaxWrites == 3
\* largest argument of setMaximumSizeInBytes
MaxSizeArg == 3
\* setBackupCount is called with 0..MaxBackups, and with the two arguments
\* around the clamp (MaxBackupCount, MaxBackupCount + 2)
MaxBackups == 2
\* backup files <path>.1 .. <path>.k that may already exist at construction
MaxInitBackups == 1
\* write() calls of the daily destination in one run
MaxDailyWrites == 2
\* old log files beyond the retention count that the daily destination may find
MaxOld == 2

\* -------------------------------------------------------- program constants
\* SizeRotationStrategy::MaxBackupCount
MaxBackupCount == 10
\* bytes Qt::endl adds to a QFile::Text stream (one "\n")
NewlineBytes == 1

\* ---------------------------------------------------------------- messages
\* A QString is a sequence of code points: "a" (U+0061), e-acute (U+00E9).
Msgs == { <<>>, <<97>>, <<233>> }

\* QString::toUtf8 of one code point: the number of bytes it encodes to.
Utf8Bytes(cp) ==
    IF cp < 128 THEN 1 ELSE IF cp < 2048 THEN 2 ELSE IF cp < 65536 THEN 3 ELSE 4

RECURSIVE Utf8Size(_)
\* message.toUtf8().size()
Utf8Size(m) == IF m = <<>> THEN 0 ELSE Utf8Bytes(Head(m)) + Utf8Size(Tail(m))

Min(a, b) == IF a < b THEN a ELSE b

\* ------------------------------------------------------------- file system
\* Slot 0 is the canonical log file mFileName, slot k is mFileName + ".k".
MaxSlot == MaxBackupCount + 1
Slots == 0..MaxSlot
NoFile == [none |-> TRUE]
\* A file: the lines written to it, and the stamp of its creation (the number
\* of rotations done when it was created; files older than the run have
\* stamps below zero).
NewFile(stamp) == [data |-> <<>>, born |-> stamp]

Exists(fs, k) == fs[k] # NoFile

RECURSIVE DataBytes(_)
DataBytes(d) ==
    IF d = <<>> THEN 0 ELSE Utf8Size(Head(d)) + NewlineBytes + DataBytes(Tail(d))

\* QFile::size(): the size of the file on disk, 0 when there is none.
FileSize(fs, k) == IF Exists(fs, k) THEN DataBytes(fs[k].data) ELSE 0

\* QFile::remove(name): fails when the file does not exist or cannot be
\* removed (locked); the result is the file system afterwards.
Remove(fs, k, locked) ==
    IF Exists(fs, k) /\ k \notin locked THEN [fs EXCEPT ![k] = NoFile] ELSE fs

\* QFile::rename(old, new): fails when old does not exist, when new exists
\* (QFile never overwrites) or when old cannot be moved (locked).
Rename(fs, old, new, locked) ==
    IF Exists(fs, old) /\ ~Exists(fs, new) /\ old \notin locked
    THEN [fs EXCEPT ![new] = fs[old], ![old] = NoFile]
    ELSE fs

\* ------------------------------------------------------- clock and dates
\* The clock advances in steps of TickMinutes, up to MaxTicks steps.
TickMinutes == 360
MaxTicks == 7
MinutesPerDay == 24 * 60
MaxTime == MaxTicks * TickMinutes

\* QDateTime::date() of a clock reading: whole days since day 0
DayOf(t) == t \div MinutesPerDay

\* Day 0 of the clock is 2024-12-30, so a run crosses a month and a year.
EpochDate == [year |-> 2024, month |-> 12, day |-> 30]

IsLeap(y) == (y % 4 = 0 /\ y % 100 # 0) \/ y % 400 = 0

DaysInMonth(y, m) ==
    IF m = 2 THEN (IF IsLeap(y) THEN 29 ELSE 28)
    ELSE IF m \in {4, 6, 9, 11} THEN 30 ELSE 31

\* QDate::addDays(1)
NextDate(d) ==
    IF d.day < DaysInMonth(d.year, d.month) THEN [d EXCEPT !.day = @ + 1]
    ELSE IF d.month < 12 THEN [d EXCEPT !.month = @ + 1, !.day = 1]
    ELSE [year |-> d.year + 1, month |-> 1, day |-> 1]

RECURSIVE DateOfDay(_)
\* the calendar date of day n of the clock
DateOfDay(n) == IF n = 0 THEN EpochDate ELSE NextDate(DateOfDay(n - 1))

\* next_rotation_tp: nowdt.setTime(hour:minute:00), then addDays(1)
NextRotationTp(t, hour, minute) ==
    (DayOf(t) + 1) * MinutesPerDay + hour * 60 + minute

\* a deadline check that fires at the deadline itself
DailyShouldRotateAtDeadline(t, tp) == t >= tp

\* shouldRotate(): nowTime > rotation_tp_
DailyShouldRotate(t, tp) == t > tp

\* ------------------------------------------------------------- file names
\* A QString path is a sequence of characters.
Digit(d) ==
    CASE d = 0 -> "0" [] d = 1 -> "1" [] d = 2 -> "2" [] d = 3 -> "3"
      [] d = 4 -> "4" [] d = 5 -> "5" [] d = 6 -> "6" [] d = 7 -> "7"
      [] d = 8 -> "8" [] d = 9 -> "9"

RECURSIVE Decimal(_)
\* QString::arg(int): decimal digits, no padding
Decimal(n) == IF n < 10 THEN << Digit(n) >> ELSE Decimal(n \div 10) \o << Digit(n % 10) >>

RECURSIVE SplitAcc(_, _, _, _)
SplitAcc(s, sep, cur, acc) ==
    IF s = <<>> THEN Append(acc, cur)
    ELSE IF Head(s) = sep THEN SplitAcc(Tail(s), sep, <<>>, Append(acc, cur))
    ELSE SplitAcc(Tail(s), sep, Append(cur, Head(s)), acc)

\* QString::split(sep): every part, empty ones kept
Split(s, sep) == SplitAcc(s, sep, <<>>, <<>>)

\* DailyRotationStrategy::calc_filename
CalcFilename(fileName, date) ==
    LET split == Split(fileName, ".")
        fileNamesplit == IF Len(split) < 2 THEN Append(split, <<>>) ELSE split
    IN  fileNamesplit[1] \o <<"_">> \o Decimal(date.year) \o <<"_">>
            \o Decimal(date.month) \o <<"_">> \o Decimal(date.day)
            \o <<".">> \o fileNamesplit[2]

\* DailyRotationStrategy::getFileName at clock reading t
GetFileName(base, t) == CalcFilename(base, DateOfDay(DayOf(t)))

\* the last position of character c in s, 0 when there is none
LastIndexOf(s, c) ==
    LET at == { i \in 1..Len(s) : s[i] = c }
    IN  IF at = {} THEN 0 ELSE CHOOSE i \in at : \A j \in at : j <= i

\* QFileInfo(path).absolutePath(): the directory part, relative to the cwd
DirOf(path) == SubSeq(path, 1, LastIndexOf(path, "/") - 1)

\* QFileInfo(path).fileName()
NameOf(path) == SubSeq(path, LastIndexOf(path, "/") + 1, Len(path))

\* QFileInfo(path).suffix(): what follows the last "." of the file name
SuffixOf(path) ==
    LET name == NameOf(path)
        dot == LastIndexOf(name, ".")
    IN  IF dot = 0 THEN <<>> ELSE SubSeq(name, dot + 1, Len(name))

\* the name filter "*." + suffix
MatchesFilter(name, suffix) ==
    LET pat == <<".">> \o suffix
    IN  /\ Len(name) >= Len(pat)
        /\ SubSeq(name, Len(name) - Len(pat) + 1, Len(name)) = pat

\* --------------------------------------------------- daily file system
\* dfiles maps each existing path to [mtime, data].
\* retention count of DailyRotationStrategy::rotate
KeepCount == 29

\* the paths in directory dir that the filter matches
Listed(fs, dir, suffix) ==
    { p \in DOMAIN fs : DirOf(p) = dir /\ MatchesFilter(NameOf(p), suffix) }

RECURSIVE SortByTime(_, _)
\* QDir::Time: most recently modified first
SortByTime(fs, paths) ==
    IF paths = {} THEN <<>>
    ELSE LET newest == CHOOSE p \in paths : \A q \in paths : fs[q].mtime <= fs[p].mtime
         IN  << newest >> \o SortByTime(fs, paths \ {newest})

\* dir.entryList(filter, Files | Readable, Time): file names, without directory
EntryList(fs, dir, suffix) ==
    LET sorted == SortByTime(fs, Listed(fs, dir, suffix))
    IN  [i \in 1..Len(sorted) |-> NameOf(sorted[i])]

\* QFile::remove(name): name is resolved against the cwd
RemovePath(fs, p) ==
    IF p \in DOMAIN fs THEN [q \in DOMAIN fs \ {p} |-> fs[q]] ELSE fs

RECURSIVE RemoveFrom(_, _, _)
\* for (i = 29; i < results.length(); i++) QFile::remove(results.at(i))
RemoveFrom(fs, results, i) ==
    IF i > Len(results) THEN fs
    ELSE RemoveFrom(RemovePath(fs, results[i]), results, i + 1)

\* DailyRotationStrategy::rotate(), with fileName = getFileName()
DailyRotate(fs, fileName) ==
    LET results == EntryList(fs, DirOf(fileName), SuffixOf(fileName))
    IN  IF Len(results) > KeepCount THEN RemoveFrom(fs, results, KeepCount + 1) ELSE fs

\* QFile::open(WriteOnly | Text): creates the file, or truncates it
OpenTruncate(fs, p, ok, t) ==
    IF ok THEN [q \in DOMAIN fs \cup {p} |->
                   IF q = p THEN [mtime |-> t, data |-> <<>>] ELSE fs[q]]
    ELSE fs

\* QFile::open(WriteOnly | Text | Append): creates the file when missing
DailyOpenAppend(fs, p, ok, t) ==
    IF ok /\ p \notin DOMAIN fs THEN OpenTruncate(fs, p, ok, t) ELSE fs

\* mOutputStream << message << endl; flush()
DailyAppendLine(fs, p, open, m, t) ==
    IF open /\ p \in DOMAIN fs
    THEN [fs EXCEPT ![p] = [mtime |-> t, data |-> Append(@.data, m)]]
    ELSE fs

AppLog == << "a", "p", "p", ".", "l", "o", "g" >>
App == << "a", "p", "p" >>
LogsAppLog == << "l", "o", "g", "s", "/" >> \o AppLog
AppTarGz == << "a", "p", "p", ".", "t", "a", "r", ".", "g", "z" >>
\* file paths given to DailyFileDestination
BasePaths == { AppLog, App, LogsAppLog, AppTarGz }

\* Log files of earlier days: o1.log (newest) .. o<n>.log (oldest) in dir.
OldName(i) == << "o" >> \o Decimal(i) \o << ".", "l", "o", "g" >>
OldPaths(dir, n) == { dir \o OldName(i) : i \in 1..n }
OldIndex(p) == CHOOSE i \in 1..(KeepCount + MaxOld) : NameOf(p) = OldName(i)
OldFiles(paths) ==
    [p \in paths |-> [mtime |-> 0 - OldIndex(p), data |-> << <<97>> >>]]

\* The dated file an earlier run of day 0 has left for the base path app.log.
FirstRunLog ==
    << "a", "p", "p", "_", "2", "0", "2", "4", "_", "1", "2", "_", "3", "0",
       ".", "l", "o", "g" >>
FirstRunFiles == [p \in { FirstRunLog } |-> [mtime |-> 0, data |-> << <<233>> >>]]

\* Directories the daily destination may find: nothing; more than KeepCount
\* old logs in the cwd and the file of an earlier run of the day; as many old
\* logs in logs/, with two equally named files in the cwd.
DailyInitDirs ==
    { OldFiles({}),
      OldFiles(OldPaths(<<>>, KeepCount + MaxOld)) @@ FirstRunFiles,
      OldFiles(OldPaths(<< "l", "o", "g", "s", "/" >>, KeepCount + MaxOld)
               \cup { OldName(KeepCount + i) : i \in 1..MaxOld }) }

VARIABLES
    kind,                 \* which strategy/destination pair this run uses
    pc,                   \* position: config, idle, or a statement of write()
    files,                \* the size destination's files, by slot
    mMaxSizeInBytes,      \* SizeRotationStrategy
    mBackupsCount,
    mCurrentSizeInBytes,
    isOpen,               \* mFile.isOpen()
    message,              \* the argument of the write() in progress
    written,              \* history: messages passed to write(), in order
    rotations,            \* history: calls of rotate()
    clean,                \* history: no file operation failed for an outside reason
    lastOpenOk,           \* history: result of the latest mFile.open()
    initFiles,            \* history: the files at construction
    pre,                  \* history: snapshot taken when the write() in progress began
    now,                  \* the wall clock, in minutes since day 0, 00:00
    rotation_hour_,       \* DailyRotationStrategy
    rotation_minute_,
    rotation_tp_,
    mFileName,            \* DailyRotationStrategy::mFileName, the base path
    openName,             \* DailyFileDestination: mFile.fileName()
    dfiles,               \* the daily destination's files, by path relative to the cwd
    call,                 \* history: the latest shouldRotate() call of the daily strategy
    tpAt,                 \* history: the clock reading rotation_tp_ was computed from
    dpre,                 \* history: dfiles when the latest daily rotate() began
    backupsArg,           \* history: the argument of the latest setBackupCount call
    lastLocked            \* history: the locked file that made a step of the latest rotate() fail

dailyVars == << now, rotation_hour_, rotation_minute_, rotation_tp_, mFileName,
                openName, dfiles, call, tpAt, dpre >>

vars == << kind, pc, files, mMaxSizeInBytes, mBackupsCount, mCurrentSizeInBytes,
           isOpen, message, written, rotations, clean, lastOpenOk, initFiles, pre,
           backupsArg, lastLocked, dailyVars >>

NoPre == [data |-> <<>>, size |-> 0, rotations |-> 0, rotated |-> FALSE,
          open |-> FALSE, existed |-> FALSE]

\* Directories the destination may find at construction: the canonical file
\* absent, empty or holding one line, and backups .1 .. .k from earlier runs.
InitDirs ==
    { [k \in Slots |->
          IF k = 0 THEN c
          ELSE IF k <= n THEN [data |-> << <<97>> >>, born |-> 0 - k]
          ELSE NoFile] :
      c \in { NoFile, NewFile(0), [data |-> << <<233>> >>, born |-> 0] },
      n \in 0..MaxInitBackups }

\* setBackupCount has not been called
NoArg == 0 - 1

BackupArgs == (0..MaxBackups) \cup { MaxBackupCount, MaxBackupCount + 2 }

\* no file in any slot
NoFiles == [k \in Slots |-> NoFile]
\* a default-constructed QDateTime
NullTime == [null |-> TRUE]
NoCall == [at |-> 0, tp |-> NullTime, result |-> FALSE]
RotationHours == { 0, 6 }
RotationMinutes == { 0, 30 }
DailyMsgs == { <<97>> }

\* SizeRotationStrategy::SizeRotationStrategy() or
\* DailyRotationStrategy::DailyRotationStrategy(), and the files on disk
Init ==
    /\ kind \in { "size", "daily" }
    /\ pc = "config"
    /\ files \in (IF kind = "size" THEN InitDirs ELSE { NoFiles })
    /\ dfiles \in (IF kind = "daily" THEN DailyInitDirs ELSE { OldFiles({}) })
    /\ mMaxSizeInBytes = 0
    /\ mBackupsCount = 0
    /\ mCurrentSizeInBytes = 0
    /\ isOpen = FALSE
    /\ message = <<>>
    /\ written = <<>>
    /\ rotations = 0
    /\ clean = TRUE
    /\ lastOpenOk = FALSE
    /\ initFiles = files
    /\ pre = NoPre
    /\ now = 0
    /\ rotation_hour_ = 0
    /\ rotation_minute_ = 0
    /\ rotation_tp_ = NullTime
    /\ mFileName = <<>>
    /\ openName = <<>>
    /\ call = NoCall
    /\ tpAt = 0
    /\ dpre = dfiles
    /\ backupsArg = NoArg
    /\ lastLocked = {}

\* ---------------------------------------------------- SizeRotationStrategy
SetMaximumSizeInBytes(size) ==
    /\ kind = "size" /\ pc = "config"
    /\ mMaxSizeInBytes' = size
    /\ UNCHANGED << kind, pc, files, mBackupsCount, mCurrentSizeInBytes, isOpen,
                    message, written, rotations, clean, lastOpenOk, initFiles, pre,
                    backupsArg, lastLocked, dailyVars >>

\* a setter that stores its argument as it is
StoreBackups(backups) == backups

\* qMin(backups, SizeRotationStrategy::MaxBackupCount)
ClampBackups(backups) == Min(backups, MaxBackupCount)

SetBackupCount(backups) ==
    /\ kind = "size" /\ pc = "config"
    /\ mBackupsCount' = ClampBackups(backups)
    /\ backupsArg' = backups
    /\ UNCHANGED << kind, pc, files, mMaxSizeInBytes, mCurrentSizeInBytes, isOpen,
                    message, written, rotations, clean, lastOpenOk, initFiles, pre,
                    lastLocked, dailyVars >>

\* mCurrentSizeInBytes += message.toUtf8().size()
IncludeMessageInCalculation(cur, m) == cur + Utf8Size(m)

\* a rotation check that fires as soon as the threshold is reached
ShouldRotateAtMax(cur, max) == cur >= max

\* return mCurrentSizeInBytes > mMaxSizeInBytes
ShouldRotate(cur, max) == cur > max

RECURSIVE ScanBackupsUncapped(_, _, _, _)
\* the scan without the cap at mBackupsCount - 1
ScanBackupsUncapped(fs, n, i, last) ==
    IF i > n THEN last
    ELSE IF Exists(fs, i) THEN ScanBackupsUncapped(fs, n, i + 1, i)
    ELSE last

RECURSIVE ScanBackups(_, _, _, _)
\* rotate() step 1: the loop over i = 1 .. mBackupsCount that finds
\* lastExistingBackupIndex, stopping at the first missing backup.
ScanBackups(fs, n, i, last) ==
    IF i > n THEN last
    ELSE IF Exists(fs, i) THEN ScanBackups(fs, n, i + 1, Min(i, n - 1))
    ELSE last

LastExistingBackupIndex(fs, n) == ScanBackups(fs, n, 1, 0)

RECURSIVE ShiftAscending(_, _, _, _)
ShiftAscending(fs, j, last, locked) ==
    IF j > last THEN fs
    ELSE ShiftAscending(Rename(Remove(fs, j + 1, locked), j, j + 1, locked),
                        j + 1, last, locked)

\* the shift walking the backups from .1 upwards instead of from the last down
ShiftUpAscending(fs, i, locked) == ShiftAscending(fs, 1, i, locked)

RECURSIVE ShiftUp(_, _, _)
\* rotate() step 2: for i = lastExistingBackupIndex down to 1, remove .(i+1)
\* and rename .i to .(i+1); a failure is reported and the loop goes on.
ShiftUp(fs, i, locked) ==
    IF i < 1 THEN fs
    ELSE ShiftUp(Rename(Remove(fs, i + 1, locked), i, i + 1, locked), i - 1, locked)

\* step 3 without the removal of the stale .1
RenameCurrentNoRemove(fs, locked) == Rename(fs, 0, 1, locked)

\* step 3 with the arguments of rename exchanged
RenameCurrentSwapped(fs, locked) ==
    Rename(IF Exists(fs, 1) THEN Remove(fs, 1, locked) ELSE fs, 1, 0, locked)

\* rotate() step 3: remove a stale .1, rename the log file to .1
RenameCurrent(fs, locked) ==
    Rename(IF Exists(fs, 1) THEN Remove(fs, 1, locked) ELSE fs, 0, 1, locked)

\* rotate() without the early return for mBackupsCount = 0
SizeRotateNoEarlyReturn(fs, n, locked) ==
    RenameCurrent(ShiftUp(fs, LastExistingBackupIndex(fs, n), locked), locked)

\* a rotate() that returns as soon as a step of the shift has failed
SizeRotateAbortOnFailure(fs, n, locked) ==
    IF n = 0 THEN Remove(fs, 0, locked)
    ELSE LET last == LastExistingBackupIndex(fs, n)
             shifted == ShiftUp(fs, last, locked)
         IN  IF shifted # ShiftUp(fs, last, {}) THEN shifted
             ELSE RenameCurrent(shifted, locked)

\* SizeRotationStrategy::rotate()
SizeRotate(fs, n, locked) ==
    IF n = 0 THEN Remove(fs, 0, locked)
    ELSE RenameCurrent(ShiftUp(fs, LastExistingBackupIndex(fs, n), locked), locked)

\* QFile::open(WriteOnly | Text | Append): creates the file when it is
\* missing, keeps its content otherwise; no effect when the open fails.
OpenAppend(fs, k, ok, stamp) ==
    IF ok /\ ~Exists(fs, k) THEN [fs EXCEPT ![k] = NewFile(stamp)] ELSE fs

\* QTextStream << message << endl; flush(): one line more in the file the
\* handle is open on; nothing reaches the disk through a closed handle.
AppendLine(fs, k, open, m) ==
    IF open /\ Exists(fs, k)
    THEN [fs EXCEPT ![k] = [@ EXCEPT !.data = Append(@, m)]]
    ELSE fs

\* -------------------------------------------------------- FileDestination
\* a validity check that looks at the stream's device, which is always set
IsValidByDevice(open) == TRUE

\* FileDestination::isValid, DailyFileDestination::isValid: mFile.isOpen()
IsValid(open) == open

\* FileDestination::FileDestination: open, setDevice, setInitialInfo
FileDestination(ok) ==
    /\ kind = "size" /\ pc = "config"
    /\ files' = OpenAppend(files, 0, ok, 0)
    /\ isOpen' = ok
    /\ lastOpenOk' = ok
    /\ clean' = (clean /\ ok)
    /\ mCurrentSizeInBytes' = FileSize(files', 0)
    /\ initFiles' = files'
    /\ pc' = "idle"
    /\ UNCHANGED << kind, mMaxSizeInBytes, mBackupsCount, message, written,
                    rotations, pre,
                    backupsArg, lastLocked, dailyVars >>

\* write(), lines 154-155: includeMessageInCalculation, then shouldRotate
WriteBegin(m) ==
    /\ kind = "size" /\ pc = "idle"
    /\ Len(written) < MaxWrites
    /\ message' = m
    /\ written' = Append(written, m)
    /\ mCurrentSizeInBytes' = IncludeMessageInCalculation(mCurrentSizeInBytes, m)
    /\ pre' = [data |-> IF Exists(files, 0) THEN files[0].data ELSE <<>>,
               size |-> mCurrentSizeInBytes,
               rotations |-> rotations,
               rotated |-> ShouldRotate(mCurrentSizeInBytes', mMaxSizeInBytes),
               open |-> isOpen,
               existed |-> Exists(files, 0)]
    /\ pc' = IF ShouldRotate(mCurrentSizeInBytes', mMaxSizeInBytes)
             THEN "close" ELSE "append"
    /\ UNCHANGED << kind, files, mMaxSizeInBytes, mBackupsCount, isOpen,
                    rotations, clean, lastOpenOk, initFiles,
                    backupsArg, lastLocked, dailyVars >>

\* a write() that goes on to rotate() without closing the handle
WriteCloseKeepsOpen ==
    /\ kind = "size" /\ pc = "close"
    /\ pc' = "rotate"
    /\ UNCHANGED << kind, files, mMaxSizeInBytes, mBackupsCount,
                    mCurrentSizeInBytes, isOpen, message, written, rotations,
                    clean, lastOpenOk, initFiles, pre,
                    backupsArg, lastLocked, dailyVars >>

\* lines 156-157: mOutputStream.setDevice(NULL); mFile.close()
WriteClose ==
    /\ kind = "size" /\ pc = "close"
    /\ isOpen' = FALSE
    /\ pc' = "rotate"
    /\ UNCHANGED << kind, files, mMaxSizeInBytes, mBackupsCount,
                    mCurrentSizeInBytes, message, written, rotations, clean,
                    lastOpenOk, initFiles, pre,
                    backupsArg, lastLocked, dailyVars >>

\* One file at most is locked by another process while rotate() runs.
LockChoices == { {} } \cup { {k} : k \in 0..(mBackupsCount + 1) }

\* line 158: mRotationStrategy->rotate()
WriteRotate(locked) ==
    /\ kind = "size" /\ pc = "rotate"
    /\ files' = SizeRotate(files, mBackupsCount, locked)
    /\ rotations' = rotations + 1
    /\ clean' = (clean /\ files' = SizeRotate(files, mBackupsCount, {}))
    /\ lastLocked' = (IF files' = SizeRotate(files, mBackupsCount, {}) THEN {} ELSE locked)
    /\ pc' = "reopen"
    /\ UNCHANGED << kind, mMaxSizeInBytes, mBackupsCount, mCurrentSizeInBytes,
                    isOpen, message, written, lastOpenOk, initFiles, pre,
                    backupsArg, dailyVars >>

\* lines 159-162: mFile.open(...Append), setInitialInfo(mFile), setDevice
WriteReopen(ok) ==
    /\ kind = "size" /\ pc = "reopen"
    /\ files' = OpenAppend(files, 0, ok, rotations)
    /\ isOpen' = ok
    /\ lastOpenOk' = ok
    /\ clean' = (clean /\ ok)
    /\ mCurrentSizeInBytes' = FileSize(files', 0)
    /\ lastLocked' = {}
    /\ pc' = "append"
    /\ UNCHANGED << kind, mMaxSizeInBytes, mBackupsCount, message, written,
                    rotations, initFiles, pre,
                    backupsArg, dailyVars >>

\* lines 165-166: mOutputStream << message << Qt::endl; flush
WriteAppend ==
    /\ kind = "size" /\ pc = "append"
    /\ files' = AppendLine(files, 0, isOpen, message)
    /\ pc' = "idle"
    /\ UNCHANGED << kind, mMaxSizeInBytes, mBackupsCount, mCurrentSizeInBytes,
                    isOpen, message, written, rotations, clean, lastOpenOk,
                    initFiles, pre,
                    backupsArg, lastLocked, dailyVars >>

\* --------------------------------------------------- DailyRotationStrategy
sizeVars == << files, mMaxSizeInBytes, mBackupsCount, mCurrentSizeInBytes,
               initFiles, pre, backupsArg, lastLocked >>

\* time passes, between any two statements
Tick ==
    /\ kind = "daily"
    /\ now + TickMinutes <= MaxTime
    /\ now' = now + TickMinutes
    /\ UNCHANGED << kind, pc, sizeVars, isOpen, message, written, rotations, clean,
                    lastOpenOk, rotation_hour_, rotation_minute_, rotation_tp_,
                    mFileName, openName, dfiles, call, tpAt, dpre >>

SetRotation_hour(newRotation_hour) ==
    /\ kind = "daily" /\ pc = "config"
    /\ rotation_hour_' = newRotation_hour
    /\ UNCHANGED << kind, pc, sizeVars, isOpen, message, written, rotations, clean,
                    lastOpenOk, now, rotation_minute_, rotation_tp_,
                    mFileName, openName, dfiles, call, tpAt, dpre >>

SetRotation_minute(newRotation_minute) ==
    /\ kind = "daily" /\ pc = "config"
    /\ rotation_minute_' = newRotation_minute
    /\ UNCHANGED << kind, pc, sizeVars, isOpen, message, written, rotations, clean,
                    lastOpenOk, now, rotation_hour_, rotation_tp_,
                    mFileName, openName, dfiles, call, tpAt, dpre >>

\* ---------------------------------------------------- DailyFileDestination
\* constructor, line 273: mRotationStrategy_->setInitialInfo(QFile(filePath))
DailySetInitialInfo(filePath) ==
    /\ kind = "daily" /\ pc = "config"
    /\ mFileName' = filePath
    /\ rotation_tp_' = NextRotationTp(now, rotation_hour_, rotation_minute_)
    /\ tpAt' = now
    /\ pc' = "construct"
    /\ UNCHANGED << kind, sizeVars, isOpen, message, written, rotations, clean,
                    lastOpenOk, now, rotation_hour_, rotation_minute_,
                    openName, dfiles, call, dpre >>

\* constructor, lines 275-298: getFileName, setFileName, open(WriteOnly | Text)
DailyFileDestination(ok) ==
    /\ kind = "daily" /\ pc = "construct"
    /\ openName' = GetFileName(mFileName, now)
    /\ dfiles' = OpenTruncate(dfiles, openName', ok, now)
    /\ isOpen' = ok
    /\ lastOpenOk' = ok
    /\ clean' = (clean /\ ok)
    /\ pc' = "idle"
    /\ UNCHANGED << kind, sizeVars, message, written, rotations, now,
                    rotation_hour_, rotation_minute_, rotation_tp_, mFileName,
                    call, tpAt, dpre >>

\* write(), line 307: shouldRotate(); when it answers true it reads the clock
\* a second time (next_rotation_tp), at t2
DailyWriteBegin(m, t2) ==
    /\ kind = "daily" /\ pc = "idle"
    /\ Len(written) < MaxDailyWrites
    /\ message' = m
    /\ written' = Append(written, m)
    /\ call' = [at |-> now, tp |-> rotation_tp_,
                result |-> DailyShouldRotate(now, rotation_tp_)]
    /\ IF DailyShouldRotate(now, rotation_tp_)
       THEN /\ t2 <= MaxTime
            /\ now' = t2
            /\ rotation_tp_' = NextRotationTp(t2, rotation_hour_, rotation_minute_)
            /\ tpAt' = t2
            /\ pc' = "close"
       ELSE /\ t2 = now
            /\ UNCHANGED << now, rotation_tp_, tpAt >>
            /\ pc' = "append"
    /\ UNCHANGED << kind, sizeVars, isOpen, rotations, clean, lastOpenOk,
                    rotation_hour_, rotation_minute_, mFileName, openName,
                    dfiles, dpre >>

\* lines 308-309: mOutputStream.setDevice(NULL); mFile.close()
DailyWriteClose ==
    /\ kind = "daily" /\ pc = "close"
    /\ isOpen' = FALSE
    /\ pc' = "rotate"
    /\ UNCHANGED << kind, sizeVars, message, written, rotations, clean,
                    lastOpenOk, now, rotation_hour_, rotation_minute_,
                    rotation_tp_, mFileName, openName, dfiles, call, tpAt, dpre >>

\* line 310: mRotationStrategy_->rotate()
DailyWriteRotate ==
    /\ kind = "daily" /\ pc = "rotate"
    /\ dpre' = dfiles
    /\ dfiles' = DailyRotate(dfiles, GetFileName(mFileName, now))
    /\ rotations' = rotations + 1
    /\ pc' = "reopen"
    /\ UNCHANGED << kind, sizeVars, isOpen, message, written, clean,
                    lastOpenOk, now, rotation_hour_, rotation_minute_,
                    rotation_tp_, mFileName, openName, call, tpAt >>

\* lines 311-316: getFileName, setFileName, open(... | Append), setDevice
DailyWriteReopen(ok) ==
    /\ kind = "daily" /\ pc = "reopen"
    /\ openName' = GetFileName(mFileName, now)
    /\ dfiles' = DailyOpenAppend(dfiles, openName', ok, now)
    /\ isOpen' = ok
    /\ lastOpenOk' = ok
    /\ clean' = (clean /\ ok)
    /\ pc' = "append"
    /\ UNCHANGED << kind, sizeVars, message, written, rotations, now,
                    rotation_hour_, rotation_minute_, rotation_tp_, mFileName,
                    call, tpAt, dpre >>

\* lines 319-320: mOutputStream << message << Qt::endl; flush
DailyWriteAppend ==
    /\ kind = "daily" /\ pc = "append"
    /\ dfiles' = DailyAppendLine(dfiles, openName, isOpen, message, now)
    /\ pc' = "idle"
    /\ UNCHANGED << kind, sizeVars, isOpen, message, written, rotations, clean,
                    lastOpenOk, now, rotation_hour_, rotation_minute_,
                    rotation_tp_, mFileName, openName, call, tpAt, dpre >>

Next ==
    \/ \E size \in 0..MaxSizeArg : SetMaximumSizeInBytes(size)
    \/ \E backups \in BackupArgs : SetBackupCount(backups)
    \/ \E ok \in BOOLEAN : FileDestination(ok)
    \/ \E m \in Msgs : WriteBegin(m)
    \/ WriteClose
    \/ \E locked \in LockChoices : WriteRotate(locked)
    \/ \E ok \in BOOLEAN : WriteReopen(ok)
    \/ WriteAppend
    \/ Tick
    \/ \E h \in RotationHours : SetRotation_hour(h)
    \/ \E m \in RotationMinutes : SetRotation_minute(m)
    \/ \E filePath \in BasePaths : DailySetInitialInfo(filePath)
    \/ \E ok \in BOOLEAN : DailyFileDestination(ok)
    \/ \E m \in DailyMsgs, t2 \in { now, now + TickMinutes } : DailyWriteBegin(m, t2)
    \/ DailyWriteClose
    \/ DailyWriteRotate
    \/ \E ok \in BOOLEAN : DailyWriteReopen(ok)
    \/ DailyWriteAppend

Spec == Init /\ [][Next]_vars

\* ================================================================ claims
RECURSIVE SumUtf8(_)
SumUtf8(ms) == IF ms = <<>> THEN 0 ELSE Utf8Size(Head(ms)) + SumUtf8(Tail(ms))

\* size of the log file at the open of the constructor plus the UTF-8 size
\* of every message passed to write() so far
CumBytes == FileSize(initFiles, 0) + SumUtf8(written)

\* the messages whose write() has returned
Completed == IF pc = "idle" THEN written ELSE SubSeq(written, 1, Len(written) - 1)

\* C1: while the cumulative byte size (size at open plus the UTF-8 size of
\* every message written so far) has not exceeded maxSizeBytes, rotate() has
\* not been called, write() is never on its rotation branch, and the
\* canonical file (when the constructor could open it) holds what it held
\* at the open followed by every written message, in write order.
C1_NoRotationBelowMax ==
    (kind = "size" /\ pc # "config" /\ CumBytes <= mMaxSizeInBytes) =>
        /\ rotations = 0
        /\ pc \in { "idle", "append" }
        /\ isOpen => /\ Exists(files, 0)
                     /\ files[0].data = initFiles[0].data \o Completed

C1_Witness ==
    /\ kind = "size" /\ pc = "idle" /\ isOpen
    /\ Len(written) >= 2
    /\ mMaxSizeInBytes > 0
    /\ CumBytes = mMaxSizeInBytes
    /\ files[0].data = initFiles[0].data \o written

\* C2: a write whose message takes the strategy's running size past
\* maxSizeBytes rotates exactly once; with backupCount >= 1 and no file
\* operation failing, right after the reopen and before the append <path>.1
\* exists and holds what the canonical file held before the rotation, and the
\* canonical file exists and is empty.
C2_OneRotationOnOverflow ==
    (/\ kind = "size" /\ pc \in { "append", "idle" } /\ written # <<>>
     /\ pre.size + Utf8Size(message) > mMaxSizeInBytes) =>
        /\ rotations = pre.rotations + 1
        /\ (pc = "append" /\ clean /\ mBackupsCount >= 1) =>
              /\ Exists(files, 1) /\ files[1].data = pre.data
              /\ Exists(files, 0) /\ files[0].data = <<>>

C2_Witness ==
    /\ kind = "size" /\ pc = "append" /\ clean /\ mBackupsCount >= 1
    /\ pre.size <= mMaxSizeInBytes
    /\ pre.size + Utf8Size(message) > mMaxSizeInBytes
    /\ pre.data # <<>>
    /\ Exists(initFiles, 1)
    /\ files[1].data = pre.data /\ files[0].data = <<>>

\* C3: write() runs includeMessageInCalculation, shouldRotate, rotate,
\* reopen, append in that order: when rotate() starts the message is counted
\* but not yet in any file, after the reopen the canonical file is new and
\* empty, and when write() returns the message that triggered the rotation is
\* the only line of the new canonical file while <path>.1 holds the
\* pre-rotation content without it (no file operation failing).
C3_TriggerGoesToNewFile ==
    (kind = "size" /\ written # <<>> /\ pre.rotated /\ clean) =>
        /\ pc \in { "close", "rotate" } =>
              /\ mCurrentSizeInBytes = pre.size + Utf8Size(message)
              /\ files[0].data = pre.data
              /\ rotations = pre.rotations
        /\ pc = "reopen" => /\ rotations = pre.rotations + 1
                            /\ ~Exists(files, 0)
        /\ pc = "append" => files[0].data = <<>>
        /\ pc = "idle" => files[0].data = << message >>
        /\ (pc \in { "reopen", "append", "idle" } /\ mBackupsCount >= 1) =>
              Exists(files, 1) /\ files[1].data = pre.data

C3_Witness ==
    /\ kind = "size" /\ pc = "idle" /\ pre.rotated /\ clean
    /\ mBackupsCount >= 1
    /\ message # <<>> /\ pre.data # <<>>
    /\ files[0].data = << message >>
    /\ files[1].data = pre.data

\* the backup slots that hold a file
Backups(fs) == { k \in 1..MaxSlot : Exists(fs, k) }

\* C4: with backupCount = N >= 1, no <path>.k with k > N is ever created or
\* changed, so at most N backups exist when none lay beyond N before; with no
\* file operation failing, after a rotation <path>.1 is the file that was the
\* canonical file until the latest rotation, and of two backups the one with
\* the higher number was rotated away earlier.
C4_BackupChain ==
    (kind = "size" /\ pc # "config" /\ mBackupsCount >= 1) =>
        /\ \A k \in Slots : k > mBackupsCount => files[k] = initFiles[k]
        /\ (\A k \in Slots : k > mBackupsCount => ~Exists(initFiles, k)) =>
              Cardinality(Backups(files)) <= mBackupsCount
        /\ (clean /\ rotations >= 1 /\ pc \in { "reopen", "append", "idle" }) =>
              Exists(files, 1) /\ files[1].born = rotations - 1
        /\ clean =>
              \A i, j \in Backups(files) :
                  (i < j /\ j <= mBackupsCount) => files[i].born > files[j].born

C4_Witness ==
    /\ kind = "size" /\ pc = "idle" /\ clean
    /\ mBackupsCount >= 2
    /\ rotations > mBackupsCount
    /\ Backups(files) = 1..mBackupsCount
    /\ files[1].born = rotations - 1

\* C5: with backupCount = 0 no rotation creates or changes <path>.1 or any
\* other backup, and right after rotate() (nothing failing) the canonical
\* file is gone.
C5_ZeroBackupsDeletes ==
    (kind = "size" /\ pc # "config" /\ mBackupsCount = 0) =>
        /\ \A k \in 1..MaxSlot : files[k] = initFiles[k]
        /\ (pc = "reopen" /\ clean) => ~Exists(files, 0)

C5_Witness ==
    /\ kind = "size" /\ pc = "reopen" /\ clean /\ mBackupsCount = 0
    /\ rotations >= 2
    /\ pre.data # <<>>
    /\ ~Exists(files, 0) /\ Backups(files) = {}

\* C6 as stated: a shouldRotate() call answers true exactly when it is made
\* at or after the stored deadline.
C6_TrueAtOrAfterDeadline ==
    (kind = "daily" /\ written # <<>>) => call.result = (call.at >= call.tp)

\* C6 amended: a shouldRotate() call answers true exactly when it is made
\* strictly after the stored deadline; a call that answers true moves the
\* deadline to rotationHour:rotationMinute of the day after the call, which
\* lies after the call, and a call that answers false leaves the deadline
\* alone.
C6_TrueOnlyPastDeadline ==
    (kind = "daily" /\ written # <<>>) =>
        /\ call.result = (call.at > call.tp)
        /\ call.result =>
              /\ rotation_tp_ > call.at
              /\ rotation_tp_ > call.tp
              /\ rotation_tp_ = (DayOf(tpAt) + 1) * MinutesPerDay
                                  + rotation_hour_ * 60 + rotation_minute_
        /\ ~call.result => rotation_tp_ = call.tp

C6_Witness ==
    /\ kind = "daily" /\ pc = "idle"
    /\ Len(written) >= 2 /\ rotations = 1
    /\ ~call.result
    /\ call.at > tpAt
    /\ rotation_tp_ = call.tp

\* rotationHour:rotationMinute of the day of clock reading t
TodayAt(t) == DayOf(t) * MinutesPerDay + rotation_hour_ * 60 + rotation_minute_

\* C7: the stored deadline is the next occurrence of
\* rotationHour:rotationMinute after the moment it was computed at.
C7_DeadlineIsNextOccurrence ==
    (kind = "daily" /\ pc # "config") =>
        rotation_tp_ = IF tpAt < TodayAt(tpAt) THEN TodayAt(tpAt)
                       ELSE TodayAt(tpAt) + MinutesPerDay

\* the position of the "." that starts the final extension of the file name
\* of path, 0 when the name has none
ExtensionDot(path) ==
    LET dot == LastIndexOf(path, ".")
    IN  IF dot > LastIndexOf(path, "/") THEN dot ELSE 0

\* path with _<year>_<month>_<day> put in front of its final extension
DatedName(path, date) ==
    LET stamp == <<"_">> \o Decimal(date.year) \o <<"_">> \o Decimal(date.month)
                     \o <<"_">> \o Decimal(date.day)
        dot == ExtensionDot(path)
    IN  IF dot = 0 THEN path \o stamp \o <<".">>
        ELSE SubSeq(path, 1, dot - 1) \o stamp \o SubSeq(path, dot, Len(path))

\* C8: the dated file name is the base name with _<year>_<month>_<day>
\* inserted in front of the final extension, the rest unchanged (a trailing
\* "." when there is no extension).
C8_DateBeforeFinalExtension ==
    (kind = "daily" /\ pc \in { "idle", "close", "rotate", "append" }) =>
        \E d \in 0..DayOf(now) : openName = DatedName(mFileName, DateOfDay(d))

\* the KeepCount most recently modified of paths
Newest(fs, paths) ==
    { p \in paths :
        Cardinality({ q \in paths : fs[q].mtime > fs[p].mtime }) < KeepCount }

\* C9: when the log directory holds more than 29 files with the log's
\* extension, rotate() leaves exactly the 29 most recently modified of them
\* there.
C9_RetentionKeepsNewest ==
    (kind = "daily" /\ pc = "reopen") =>
        LET before == Listed(dpre, DirOf(mFileName), SuffixOf(mFileName))
            after == Listed(dfiles, DirOf(mFileName), SuffixOf(mFileName))
        IN  Cardinality(before) > KeepCount => after = Newest(dpre, before)

\* C10: between the statements that close and reopen the file, isValid() of
\* either destination is the result of the latest open attempt, and a write()
\* that is past its reopen can always append and return.
C10_IsValidIsLastOpen ==
    pc \in { "idle", "append" } =>
        /\ IsValid(isOpen) = lastOpenOk
        /\ pc = "append" =>
              IF kind = "size" THEN ENABLED WriteAppend ELSE ENABLED DailyWriteAppend

C10_Witness ==
    /\ kind = "daily" /\ pc = "idle"
    /\ IsValid(isOpen) /\ lastOpenOk /\ ~clean
    /\ rotations >= 1

RECURSIVE ChainFrom(_, _)
\* the lines of <path>.k, ..., <path>.1, one file after the other
ChainFrom(fs, k) ==
    IF k < 1 THEN <<>>
    ELSE (IF Exists(fs, k) THEN fs[k].data ELSE <<>>) \o ChainFrom(fs, k - 1)

\* the lines of the retained chain: the backups from the highest existing one
\* down to .1, then the canonical file
Chain(fs) ==
    ChainFrom(fs, MaxSlot) \o (IF Exists(fs, 0) THEN fs[0].data ELSE <<>>)

IsSuffix(s, t) ==
    Len(s) <= Len(t) /\ s = SubSeq(t, Len(t) - Len(s) + 1, Len(t))

\* the log directory was empty when the destination was constructed
StartedEmpty == Backups(initFiles) = {} /\ FileSize(initFiles, 0) = 0

\* C11: with backupCount = N >= 1, no file operation failing and an empty
\* log directory at the start, when write() has returned the backups
\* .1 .. .k are all there (k <= N) and .k, ..., .1 and the canonical file,
\* read one after the other, are a suffix of the sequence of written
\* messages; nothing at all is missing while no more than N rotations have
\* happened.
C11_ChainIsSuffix ==
    (/\ kind = "size" /\ pc = "idle" /\ clean /\ mBackupsCount >= 1
     /\ StartedEmpty) =>
        /\ Backups(files) = 1..Min(rotations, mBackupsCount)
        /\ IsSuffix(Chain(files), written)
        /\ rotations <= mBackupsCount => Chain(files) = written

C11_Witness ==
    /\ kind = "size" /\ pc = "idle" /\ clean /\ StartedEmpty
    /\ mBackupsCount = 1
    /\ rotations = 3
    /\ Len(Chain(files)) = 2
    /\ Chain(files) = SubSeq(written, 2, 3)

\* C12: the stored backup count is min(b, MaxBackupCount) for the argument
\* b >= 0 of the latest setBackupCount call, it always lies in
\* 0..MaxBackupCount, and rotate() creates no <path>.k with k > MaxBackupCount.
C12_BackupCountClamped ==
    kind = "size" =>
        /\ mBackupsCount \in 0..MaxBackupCount
        /\ backupsArg >= 0 =>
               mBackupsCount = (IF backupsArg < 10 THEN backupsArg ELSE 10)
        /\ \A k \in Slots : k > MaxBackupCount => ~Exists(files, k)

C12_Witness ==
    /\ kind = "size" /\ pc = "idle"
    /\ backupsArg = MaxBackupCount + 2
    /\ mBackupsCount = MaxBackupCount
    /\ rotations = 3
    /\ Backups(files) = 1..3

\* the bytes the canonical file had when the handle was last opened on it
\* (no file operation failing: a reopen after a rotation finds no file), and
\* the messages appended through that handle since
SizeAtOpen == IF rotations = 0 THEN FileSize(initFiles, 0) ELSE 0
AppendedSinceOpen == IF rotations = 0 THEN written ELSE files[0].data

\* C13: when write() has returned and no file operation has failed,
\* currentSizeBytes is the size the canonical file had when it was last
\* (re)opened plus the UTF-8 bytes of the messages appended to it since.
C13_RunningTotal ==
    (kind = "size" /\ pc = "idle" /\ clean /\ Exists(files, 0)) =>
        mCurrentSizeInBytes = SizeAtOpen + SumUtf8(AppendedSinceOpen)

\* the order of the steps of the constructors and of write()
StepOrder ==
    { <<"config", "idle">>, <<"config", "construct">>, <<"construct", "idle">>,
      <<"idle", "append">>, <<"idle", "close">>, <<"close", "rotate">>,
      <<"rotate", "reopen">>, <<"reopen", "append">>, <<"append", "idle">> }

\* C14: in both destinations a rotating write() closes the handle, runs
\* rotate(), makes one reopen attempt and then appends; rotate() runs only
\* while the handle is closed, a write() runs it at most once, and a handle
\* that is open after a rotation was opened by the reopen that followed it.
C14_RotationOrder ==
    /\ [](pc \in { "rotate", "reopen" } => ~isOpen)
    /\ [][pc' # pc => << pc, pc' >> \in StepOrder]_vars
    /\ [][rotations' # rotations =>
            /\ pc = "rotate" /\ pc' = "reopen"
            /\ ~isOpen /\ ~isOpen'
            /\ rotations' = rotations + 1]_vars
    /\ [][(pc = "reopen" /\ pc' = "append") => isOpen' = lastOpenOk']_vars
    /\ [][(isOpen' /\ ~isOpen) => pc \in { "config", "construct", "reopen" }]_vars
    /\ [](rotations <= Len(written))

C14_Witness ==
    /\ kind = "daily" /\ pc = "idle"
    /\ Len(written) = 2 /\ rotations = 1
    /\ call.result
    /\ isOpen

\* C15: with backupCount >= 1, whatever remove or rename of the shift has
\* failed, rotate() still moves the canonical file to .1 when neither of the
\* two is locked, and write() goes on: it reopens the canonical path, takes
\* the size of the reopened file as the new running size and appends the
\* message through the handle it got.
C15_BestEffort ==
    (kind = "size" /\ pre.rotated /\ mBackupsCount >= 1) =>
        /\ pc = "reopen" =>
               /\ (pre.existed /\ lastLocked \cap { 0, 1 } = {}) =>
                      /\ ~Exists(files, 0)
                      /\ Exists(files, 1) /\ files[1].data = pre.data
               /\ ENABLED (\E ok \in BOOLEAN : WriteReopen(ok))
        /\ pc = "append" =>
               /\ mCurrentSizeInBytes = FileSize(files, 0)
               /\ ENABLED WriteAppend
        /\ (pc = "idle" /\ isOpen) =>
               /\ files[0].data # <<>>
               /\ files[0].data[Len(files[0].data)] = message

\* a locked .2 has made the shift fail, the canonical file went to .1 all the same
C15_Witness ==
    /\ kind = "size" /\ pc = "reopen" /\ pre.rotated
    /\ mBackupsCount = MaxBackupCount
    /\ lastLocked = { 2 }
    /\ ~clean
    /\ Exists(files, 2) /\ ~Exists(files, 3)
    /\ pre.existed /\ pre.data # <<>>
    /\ Exists(files, 1) /\ files[1].data = pre.data

\* a write() of the size destination has made its rotation decision and,
\* if it rotates, has run rotate()
Decided == kind = "size" /\ pc \in { "append", "idle" } /\ written # <<>>

\* C16 as stated: with maxSizeBytes = 0 every write() rotates, for every
\* message and every starting file size.
C16_ZeroMaxAlwaysRotates ==
    (Decided /\ mMaxSizeInBytes = 0) => rotations = pre.rotations + 1

\* C16: with maxSizeBytes = 0 a write() rotates exactly when currentSizeBytes
\* is positive once the message has been counted, so every write() of a
\* non-empty message rotates and a write() of an empty message at
\* currentSizeBytes = 0 does not.
C16_ZeroMaxRotatesOnPositiveSize ==
    (Decided /\ mMaxSizeInBytes = 0) =>
        /\ rotations = pre.rotations +
               (IF pre.size + Utf8Size(message) > 0 THEN 1 ELSE 0)
        /\ message # <<>> => rotations = pre.rotations + 1

\* an empty message written to a file that holds a line: no rotation
C16_Witness ==
    /\ Decided /\ mMaxSizeInBytes = 0 /\ pc = "idle"
    /\ message = <<>>
    /\ pre.size = 0 /\ pre.data # <<>>
    /\ rotations = pre.rotations

\* C17: starting from an empty canonical file and with no file operation
\* failing, when write() has returned the messages held in the canonical
\* file take at most maxSizeBytes UTF-8 bytes, unless the file holds exactly
\* one message that is larger than maxSizeBytes by itself.
C17_ActiveFileBounded ==
    (/\ kind = "size" /\ pc = "idle" /\ clean
     /\ FileSize(initFiles, 0) = 0 /\ Exists(files, 0)) =>
        \/ SumUtf8(files[0].data) <= mMaxSizeInBytes
        \/ /\ Len(files[0].data) = 1
           /\ Utf8Size(files[0].data[1]) > mMaxSizeInBytes

IsPrefix(s, t) == Len(s) <= Len(t) /\ s = SubSeq(t, 1, Len(s))

\* C18: a dated file the daily destination has opened, in its constructor
\* or after a rotation, still begins with the lines it had before the open.
C18_DatedContentKept ==
    (/\ kind = "daily" /\ pc \in { "append", "idle" }
     /\ isOpen /\ openName \in DOMAIN dpre /\ openName \in DOMAIN dfiles) =>
        IsPrefix(dpre[openName].data, dfiles[openName].data)

Days == 0..(DayOf(MaxTime) + 1)

\* the dated path of the base path for day d
PathOfDay(d) == GetFileName(mFileName, d * MinutesPerDay)

\* C19: the reopen after a daily rotation opens a path whose date stamp is
\* strictly later than the date stamp of the path that was open before the
\* rotation; the two paths differ.
C19_RotationChangesFile ==
    [][(kind = "daily" /\ pc = "reopen" /\ pc' = "append") =>
          /\ openName' # openName
          /\ \E d1 \in Days, d2 \in Days :
                 /\ d1 < d2
                 /\ openName = PathOfDay(d1)
                 /\ openName' = PathOfDay(d2)]_vars

\* C20: the daily rotate() removes or changes no file other than files of
\* the log directory whose name the dated template makes from the base name.
C20_RetentionFrame ==
    (kind = "daily" /\ pc = "reopen") =>
        \A p \in DOMAIN dpre :
            (p \notin DOMAIN dfiles \/ dfiles[p] # dpre[p]) =>
                /\ DirOf(p) = DirOf(mFileName)
                /\ \E d \in Days : p = PathOfDay(d)

=============================================================================
